---------------------------- MODULE Spec2Model ----------------------------
(***************************************************************************)
(* State-machine model of double_pendulum.ipynb: the sample generation     *)
(* (generate_ocp_samples), the __main__ pipeline and the receding-horizon  *)
(* loop (mpc_controller).                                                  *)
(*                                                                         *)
(* Numbers are abstracted to small grids: a State, a Control and a cost    *)
(* are indices.  The nonlinear solver (ipopt behind casadi's Opti) and the *)
(* regression model (keras) are external: the solver is an unknown but     *)
(* fixed function of the initial-state constraint, the trained model an    *)
(* unknown function from states to predicted costs.                        *)
(***************************************************************************)
EXTENDS Integers, Sequences, FiniteSets, TLC

\* ------------------------------------------------------------------ bounds
MaxState == 1
MaxControl == 1
MaxCost == 1
MaxSamples == 2
MaxHorizon == 2

States == 0..MaxState
Controls == 0..MaxControl
Costs == 0..MaxCost

\* ------------------------------------------------------- external: solver
\* What opti.solve() gives for the problem whose initial-state constraint is
\* x: a RuntimeError ("fail") or a solution ("ok"), of which the code reads
\* the second state x[:, 1], the first control u[:, 0], the terminal state
\* x[:, -1] and the value of the stage-cost sum.  "unknown": not solved yet.
Outcome ==
    [status : {"ok"}, x1 : States, u0 : Controls, xN : States, stage : Costs]
    \cup {[status |-> "fail", x1 |-> 0, u0 |-> 0, xN |-> 0, stage |-> 0]}

Unknown == [status |-> "unknown", x1 |-> 0, u0 |-> 0, xN |-> 0, stage |-> 0]

\* What solve_ocp returns to generate_ocp_samples: the optimal cost, or a
\* RuntimeError raised by opti.solve().
OcpResult == [ok : {TRUE}, J : Costs] \cup {[ok |-> FALSE, J |-> 0]}

\* ------------------------------------------------ external: trained model
Predictors == [States -> Costs]
ZeroModel == [s \in States |-> 0]

\* model.predict(np.array([x]))[0, 0]
Predict(m, x) == m[x]

VARIABLES
    pc,             \* position of __main__
    num_samples,    \* argument of generate_ocp_samples
    horizon_length, \* argument of mpc_controller
    rng,            \* state of numpy's global random source: draws made
    X, Y,           \* the lists of generate_ocp_samples
    gen_iter,       \* iterations of the sampling loop begun so far
    model,          \* <<>> before training, <<predictor>> after
    stdout,         \* what __main__ has printed
    ipopt,          \* the solver's answer per initial-state constraint
    x_init,         \* argument of mpc_controller
    x_current, total_cost, x_traj, u_traj,
    sol,            \* mpc_controller's local sol: <<>> while unbound
    mpc_iter,       \* iterations of the MPC loop completed
    mpc_status,     \* idle | loop | returned | raised
    mpc_exc,        \* the exception that ended the call, or "none"
    \* history (not read by the program)
    attempts,       \* per sampling iteration: [x0, ok, J, draw]
    skipped,        \* sampling iterations that took the except branch
    writers,        \* per shared object: the sampling iterations that wrote it
    mpc_solves,     \* opti.solve() calls made by mpc_controller
    mpc_log,        \* per completed MPC iteration: what was solved and added
    prev            \* <<>> or <<the previous call of mpc_controller>>

vars == <<pc, num_samples, horizon_length, rng, X, Y, gen_iter, model, stdout,
          ipopt, x_init, x_current, total_cost, x_traj, u_traj, sol, mpc_iter,
          mpc_status, mpc_exc, attempts, skipped, writers, mpc_solves, mpc_log,
          prev>>

genVars == <<X, Y, gen_iter, attempts, skipped, writers>>
mpcVars == <<ipopt, x_init, x_current, total_cost, x_traj, u_traj, sol,
             mpc_iter, mpc_status, mpc_exc, mpc_solves, mpc_log>>

SharedObjects == {"rng", "X", "Y"}

RECURSIVE SumSeq(_)
SumSeq(s) == IF s = <<>> THEN 0 ELSE Head(s) + SumSeq(Tail(s))

\* --------------------------------------------------- generate_ocp_samples
\* np.random.uniform draws from the global random source and advances it.
NextRng_Stateless(r) == r

NextRng(r) == r + 1

\* The try/except of the loop body: both lists grow on success, neither on
\* a RuntimeError.
SampleBody_AppendBeforeSolve(Xs, Ys, x0, res) ==
    IF res.ok THEN <<Append(Xs, x0), Append(Ys, res.J)>>
              ELSE <<Append(Xs, x0), Ys>>

SampleBody(Xs, Ys, x0, res) ==
    IF res.ok THEN <<Append(Xs, x0), Append(Ys, res.J)>>
              ELSE <<Xs, Ys>>

\* The objects one iteration of the sampling loop writes.
SampleWrites(res) == IF res.ok THEN {"rng", "X", "Y"} ELSE {"rng"}

GenerateIteration ==
    /\ pc = "generate"
    /\ gen_iter < num_samples
    /\ \E x0 \in States, res \in OcpResult :
         LET out == SampleBody(X, Y, x0, res)
             i == gen_iter + 1
         IN /\ rng' = NextRng(rng)
            /\ X' = out[1]
            /\ Y' = out[2]
            /\ gen_iter' = i
            /\ attempts' = Append(attempts,
                   [x0 |-> x0, ok |-> res.ok, J |-> res.J, draw |-> rng'])
            /\ skipped' = IF res.ok THEN skipped ELSE skipped + 1
            /\ writers' = [o \in SharedObjects |->
                   IF o \in SampleWrites(res) THEN writers[o] \cup {i}
                                              ELSE writers[o]]
    /\ UNCHANGED <<pc, num_samples, horizon_length, model, stdout, mpcVars, prev>>

GenerateReturn ==
    /\ pc = "generate"
    /\ gen_iter = num_samples
    /\ pc' = "check"
    /\ UNCHANGED <<num_samples, horizon_length, rng, genVars, model, stdout,
                   mpcVars, prev>>

\* ------------------------------------------------------------- __main__
\* if X.shape[0] > 0
EnoughData_AllowEmpty(Xs) == Len(Xs) >= 0

EnoughData(Xs) == Len(Xs) > 0

CheckData ==
    /\ pc = "check"
    /\ pc' = IF EnoughData(X) THEN "train" ELSE "report"
    /\ UNCHANGED <<num_samples, horizon_length, rng, genVars, model, stdout,
                   mpcVars, prev>>

TrainModel ==
    /\ pc = "train"
    /\ \E m \in Predictors : model' = <<m>>
    /\ pc' = "call_mpc"
    /\ UNCHANGED <<num_samples, horizon_length, rng, genVars, stdout, mpcVars,
                   prev>>

ReportNoSamples ==
    /\ pc = "report"
    /\ stdout' = Append(stdout, "No valid samples generated")
    /\ pc' = "done"
    /\ UNCHANGED <<num_samples, horizon_length, rng, genVars, model, mpcVars,
                   prev>>

\* ------------------------------------------------------- mpc_controller
\* The function's first four statements.
MpcEntry(x) ==
    /\ x_init' = x
    /\ x_current' = x
    /\ total_cost' = 0
    /\ x_traj' = <<x>>
    /\ u_traj' = <<>>
    /\ sol' = <<>>
    /\ mpc_iter' = 0
    /\ mpc_status' = "loop"
    /\ mpc_exc' = "none"
    /\ mpc_solves' = 0
    /\ mpc_log' = <<>>

CallMpc ==
    /\ pc = "call_mpc"
    /\ \E x \in States : MpcEntry(x)
    /\ rng' = NextRng(rng)
    /\ pc' = "mpc"
    /\ UNCHANGED <<num_samples, horizon_length, genVars, model, stdout, ipopt,
                   prev>>

\* The answers opti.solve() can give for initial-state constraint x.
SolveOutcomes(x) == IF ipopt[x] = Unknown THEN Outcome ELSE {ipopt[x]}

Raise(exc) ==
    /\ mpc_status' = "raised"
    /\ mpc_exc' = exc
    /\ UNCHANGED <<x_current, total_cost, x_traj, u_traj, sol, mpc_iter,
                   mpc_log>>

\* One pass through the body of the for loop.  The terminal-cost line reads
\* the local sol before the pass has assigned it: with sol unbound that is
\* an UnboundLocalError.  With sol bound the line is taken as written, the
\* terminal state of the previous pass's solution, giving a number that is
\* added to the objective (so the minimiser is the bare problem's and the
\* solved cost is the stage cost plus that number); no call reaches that
\* branch, since sol is unbound in every first pass.
MpcIteration ==
    /\ pc = "mpc"
    /\ mpc_status = "loop"
    /\ mpc_iter < horizon_length
    /\ IF sol = <<>>
       THEN /\ Raise("UnboundLocalError")
            /\ UNCHANGED <<ipopt, mpc_solves>>
       ELSE LET terminal_cost == Predict(model[1], sol[1].xN)
            IN \E out \in SolveOutcomes(x_current) :
                 /\ ipopt' = [ipopt EXCEPT ![x_current] = out]
                 /\ mpc_solves' = mpc_solves + 1
                 /\ IF out.status = "fail"
                    THEN Raise("RuntimeError")
                    ELSE /\ sol' = <<out>>
                         /\ x_current' = out.x1
                         /\ total_cost' = total_cost + (out.stage + terminal_cost)
                         /\ x_traj' = Append(x_traj, out.x1)
                         /\ u_traj' = Append(u_traj, out.u0)
                         /\ mpc_iter' = mpc_iter + 1
                         /\ mpc_log' = Append(mpc_log,
                                [x0 |-> x_current, x1 |-> out.x1, u0 |-> out.u0,
                                 cost |-> out.stage + terminal_cost,
                                 terminal |-> terminal_cost])
                         /\ UNCHANGED <<mpc_status, mpc_exc>>
    /\ UNCHANGED <<pc, num_samples, horizon_length, rng, genVars, model, stdout,
                   x_init, prev>>

MpcReturn ==
    /\ pc = "mpc"
    /\ mpc_status = "loop"
    /\ mpc_iter = horizon_length
    /\ mpc_status' = "returned"
    /\ UNCHANGED <<pc, num_samples, horizon_length, rng, genVars, model, stdout,
                   ipopt, x_init, x_current, total_cost, x_traj, u_traj, sol,
                   mpc_iter, mpc_exc, mpc_solves, mpc_log, prev>>

\* The plots and the print of the total cost; an exception out of
\* mpc_controller is not caught, so none of this runs after one.
PlotAndPrint ==
    /\ pc = "mpc"
    /\ mpc_status = "returned"
    /\ stdout' = Append(stdout, "Total running cost")
    /\ pc' = "done"
    /\ UNCHANGED <<num_samples, horizon_length, rng, genVars, model, mpcVars,
                   prev>>

\* ---------------------------------------------------------- the pipeline
Init ==
    /\ pc = "generate"
    /\ num_samples \in 0..MaxSamples
    /\ horizon_length \in 0..MaxHorizon
    /\ rng = 0
    /\ X = <<>>
    /\ Y = <<>>
    /\ gen_iter = 0
    /\ model = <<>>
    /\ stdout = <<>>
    /\ ipopt = [s \in States |-> Unknown]
    /\ x_init = 0
    /\ x_current = 0
    /\ total_cost = 0
    /\ x_traj = <<>>
    /\ u_traj = <<>>
    /\ sol = <<>>
    /\ mpc_iter = 0
    /\ mpc_status = "idle"
    /\ mpc_exc = "none"
    /\ attempts = <<>>
    /\ skipped = 0
    /\ writers = [o \in SharedObjects |-> {}]
    /\ mpc_solves = 0
    /\ mpc_log = <<>>
    /\ prev = <<>>

Next ==
    \/ GenerateIteration
    \/ GenerateReturn
    \/ CheckData
    \/ TrainModel
    \/ ReportNoSamples
    \/ CallMpc
    \/ MpcIteration
    \/ MpcReturn
    \/ PlotAndPrint

Spec == Init /\ [][Next]_vars

\* ------------------------------------------- mpc_controller called directly
\* A call of mpc_controller with any arguments, any solver and any terminal
\* model, followed by a second call with the same arguments and another
\* terminal model.
MpcEnded == mpc_status \in {"returned", "raised"}

CallRecord ==
    [status |-> mpc_status, exc |-> mpc_exc, x_traj |-> x_traj,
     u_traj |-> u_traj, total_cost |-> total_cost,
     terminal_sum |-> SumSeq([i \in 1..Len(mpc_log) |-> mpc_log[i].terminal]),
     model |-> model[1]]

CallAgain ==
    /\ pc = "mpc"
    /\ MpcEnded
    /\ prev = <<>>
    /\ prev' = <<CallRecord>>
    /\ \E m \in Predictors \ {model[1]} : model' = <<m>>
    /\ MpcEntry(x_init)
    /\ UNCHANGED <<pc, num_samples, horizon_length, rng, genVars, stdout, ipopt>>

InitMpc ==
    /\ pc = "mpc"
    /\ num_samples = 0
    /\ horizon_length \in 0..MaxHorizon
    /\ rng = 0
    /\ X = <<>>
    /\ Y = <<>>
    /\ gen_iter = 0
    /\ \E m \in Predictors : model = <<m>>
    /\ stdout = <<>>
    /\ ipopt \in [States -> Outcome]
    /\ x_init \in States
    /\ x_current = x_init
    /\ total_cost = 0
    /\ x_traj = <<x_init>>
    /\ u_traj = <<>>
    /\ sol = <<>>
    /\ mpc_iter = 0
    /\ mpc_status = "loop"
    /\ mpc_exc = "none"
    /\ attempts = <<>>
    /\ skipped = 0
    /\ writers = [o \in SharedObjects |-> {}]
    /\ mpc_solves = 0
    /\ mpc_log = <<>>
    /\ prev = <<>>

NextMpc ==
    \/ MpcIteration
    \/ MpcReturn
    \/ CallAgain

SpecMpc == InitMpc /\ [][NextMpc]_vars

\* The reference of the zero-terminal-model scenario: solve the bare OCP h
\* times, each time from the second state of the previous solution, keeping
\* the second states, the first controls and the sum of the costs.  ok is
\* FALSE when a solve fails (the lists then hold what was gathered before).
RECURSIVE BareFrom(_, _, _)
BareFrom(x, h, acc) ==
    IF h = 0 THEN acc
    ELSE IF ipopt[x].status # "ok" THEN [acc EXCEPT !.ok = FALSE]
    ELSE BareFrom(ipopt[x].x1, h - 1,
                  [acc EXCEPT !.x_traj = Append(@, ipopt[x].x1),
                              !.u_traj = Append(@, ipopt[x].u0),
                              !.total = @ + ipopt[x].stage])

BareRun(x, h) ==
    BareFrom(x, h, [ok |-> TRUE, x_traj |-> <<x>>, u_traj |-> <<>>, total |-> 0])

SolverKnown == \A s \in States : ipopt[s] # Unknown

\* ================================================================ claims
IsOk(a) == a.ok

\* C1: a call of mpc_controller with horizon_length = H returns H+1 states,
\* the first being x_init, H controls, and a total cost that is the sum of
\* the costs of the problems solved (a run the solver failed is set aside).
C1_RunReturnsTrajectories ==
    (MpcEnded /\ mpc_exc # "RuntimeError") =>
        /\ mpc_status = "returned"
        /\ Len(x_traj) = horizon_length + 1
        /\ x_traj[1] = x_init
        /\ Len(u_traj) = horizon_length
        /\ total_cost = SumSeq([i \in 1..Len(mpc_log) |-> mpc_log[i].cost])

\* C2: a run of the MPC loop ends either Done, after exactly horizon_length
\* solves each followed by one apply, or Failed, out of a solve that failed.
C2_EndsDoneOrFailed ==
    MpcEnded =>
        \/ /\ mpc_status = "returned"
           /\ mpc_solves = horizon_length
           /\ Len(mpc_log) = horizon_length
        \/ /\ mpc_status = "raised"
           /\ mpc_exc = "RuntimeError"
           /\ mpc_solves = Len(mpc_log) + 1

\* C3: no pass of the MPC loop computes its terminal cost from a prior
\* solution that does not exist yet.
C3_TerminalStateDefined == mpc_exc # "UnboundLocalError"

\* C4: when the solver fails on the problem of pass k, the caller still gets
\* the k states and k-1 controls gathered so far; the run does not end in an
\* exception with nothing returned.
C4_PartialResultOnSolverFailure ==
    LET ref == BareRun(x_init, horizon_length)
    IN (MpcEnded /\ SolverKnown /\ ~ref.ok) =>
           /\ mpc_status # "raised"
           /\ x_traj = ref.x_traj
           /\ u_traj = ref.u_traj

\* C5: the sampling loop makes one solve attempt per iteration, num_samples
\* in all; X and Y hold, in order, the initial state and the cost of each
\* successful attempt and nothing of a failed one.
C5_SamplesMatchSolves ==
    LET succ == SelectSeq(attempts, IsOk)
    IN /\ Len(attempts) = gen_iter
       /\ gen_iter <= num_samples
       /\ (pc # "generate" => Len(attempts) = num_samples)
       /\ Len(X) = Len(Y)
       /\ Len(X) = Len(succ)
       /\ \A i \in 1..Len(succ) : X[i] = succ[i].x0 /\ Y[i] = succ[i].J
       /\ Len(X) + skipped = Len(attempts)

C5_Witness ==
    /\ pc = "check"
    /\ num_samples >= 2
    /\ Len(X) >= 1
    /\ skipped >= 1

\* C6: training starts only once sampling has finished with a sample, the
\* MPC run only once the model is trained; with no sample neither starts
\* and the program ends having printed that no sample was generated.
C6_StagesInOrder ==
    /\ pc = "train" => (gen_iter = num_samples /\ Len(X) > 0)
    /\ model # <<>> => (gen_iter = num_samples /\ Len(X) > 0)
    /\ mpc_status # "idle" => model # <<>>
    /\ (pc # "generate" /\ Len(X) = 0) =>
           /\ model = <<>>
           /\ mpc_status = "idle"
           /\ pc \in {"check", "report", "done"}
    /\ (pc = "done" /\ Len(X) = 0) => stdout = <<"No valid samples generated">>

C6_Witness ==
    /\ mpc_status # "idle"
    /\ model # <<>>
    /\ Len(X) >= 1

\* C7: with the model that predicts 0, the run is in step with the bare-OCP
\* reference after every pass and returns the reference's states, controls
\* and total cost.
C7_ZeroModelMatchesBareOcp ==
    LET ref == BareRun(x_init, horizon_length)
    IN (mpc_status # "idle" /\ SolverKnown /\ model = <<ZeroModel>> /\ ref.ok) =>
           /\ x_traj = SubSeq(ref.x_traj, 1, mpc_iter + 1)
           /\ u_traj = SubSeq(ref.u_traj, 1, mpc_iter)
           /\ MpcEnded =>
                  /\ mpc_status = "returned"
                  /\ x_traj = ref.x_traj
                  /\ u_traj = ref.u_traj
                  /\ total_cost = ref.total

\* C8: pass i solves from entry i-1 of the state trajectory and appends the
\* second state and the first control of its solution; the current state is
\* always the last entry of the trajectory.
C8_NominalChaining ==
    /\ mpc_status # "idle" => x_current = x_traj[Len(x_traj)]
    /\ (MpcEnded /\ mpc_exc # "RuntimeError") =>
           \A i \in 1..horizon_length :
               /\ i <= Len(mpc_log)
               /\ i + 1 <= Len(x_traj)
               /\ mpc_log[i].x0 = x_traj[i]
               /\ x_traj[i + 1] = mpc_log[i].x1
               /\ u_traj[i] = mpc_log[i].u0

\* C9 as stated: no object is written by more than one iteration of the
\* sampling loop.
C9_NoSharedMutableState ==
    \A o \in SharedObjects : Cardinality(writers[o]) <= 1

\* C9 as amended: every iteration advances the one global random source,
\* iteration i taking draw i, and every successful iteration appends to the
\* shared lists X and Y; nothing else is carried between iterations.
C9_SharedSourceAndLists ==
    /\ writers["rng"] = 1..gen_iter
    /\ writers["X"] = {i \in 1..Len(attempts) : attempts[i].ok}
    /\ writers["Y"] = writers["X"]
    /\ \A i \in 1..Len(attempts) : attempts[i].draw = i
    /\ pc \in {"generate", "check", "train", "report"} => rng = gen_iter

C9_Witness ==
    /\ pc = "check"
    /\ Cardinality(writers["X"]) >= 2
    /\ Cardinality(writers["rng"]) >= 2

\* C10: two calls with the same arguments and different terminal models
\* return the same states and controls, and total costs that differ by the
\* difference of the sums of the predicted terminal values (calls the solver
\* failed are set aside).
C10_TerminalModelOnlyShiftsCost ==
    (prev # <<>> /\ MpcEnded /\ mpc_exc # "RuntimeError"
                 /\ prev[1].exc # "RuntimeError") =>
        /\ prev[1].status = "returned"
        /\ mpc_status = "returned"
        /\ x_traj = prev[1].x_traj
        /\ u_traj = prev[1].u_traj
        /\ total_cost - SumSeq([i \in 1..Len(mpc_log) |-> mpc_log[i].terminal])
               = prev[1].total_cost - prev[1].terminal_sum

=============================================================================
